---- MODULE Spec2Model ----
(***************************************************************************)
(* A model of the implicit filtering optimiser (src/src/lib.rs) and of the *)
(* ODE oracle it is run with (src/src/main.rs, src/src/euler.rs).          *)
(*                                                                         *)
(* The program computes on f64.  The model computes on binary floating     *)
(* point numbers of Prec mantissa bits with an unbounded exponent: a       *)
(* number is <<m, e>> and stands for m * 2^e, with m = 0 and e = 0 for     *)
(* zero and 2^(Prec-1) <= |m| < 2^Prec otherwise.  Every operation rounds  *)
(* its exact result to the nearest such number (ties to even), as f64      *)
(* does.  A division by zero gives an infinity, 0/0 gives NaN, as in f64;  *)
(* exponent overflow, underflow and the sign of zero are not modelled.     *)
(***************************************************************************)
EXTENDS Integers, Sequences, FiniteSets, TLC

\* Mantissa bits of the modelled floating point numbers.
Prec == 12

\* ------------------------------------------------------------------------
\* Floating point arithmetic
\* ------------------------------------------------------------------------

RECURSIVE Pow2(_)
Pow2(n) == IF n = 0 THEN 1 ELSE 2 * Pow2(n - 1)

RECURSIVE BitLen(_)
BitLen(n) == IF n = 0 THEN 0 ELSE 1 + BitLen(n \div 2)

AbsInt(n) == IF n < 0 THEN -n ELSE n

SgnInt(n) == IF n < 0 THEN -1 ELSE IF n = 0 THEN 0 ELSE 1

\* The exponent that marks the values that are not finite numbers.
SpecialExp == 1000000

Zero == <<0, 0>>
PosInf == <<1, SpecialExp>>
NegInf == <<-1, SpecialExp>>
NaN == <<0, SpecialExp>>

IsFinite(a) == a[2] # SpecialExp
IsNaN(a) == a = NaN
IsInf(a) == a = PosInf \/ a = NegInf

\* n / 2^k for n >= 0, rounded to the nearest integer, ties to even.
RoundShift(n, k) ==
    LET d == Pow2(k)
        q == n \div d
        r == n % d
        half == d \div 2
    IN  IF r > half \/ (r = half /\ q % 2 = 1) THEN q + 1 ELSE q

\* The floating point number nearest to m * 2^e.
Norm(m, e) ==
    IF m = 0 THEN Zero
    ELSE LET n == AbsInt(m)
             len == BitLen(n)
         IN  IF len <= Prec
             THEN <<SgnInt(m) * n * Pow2(Prec - len), e - (Prec - len)>>
             ELSE LET k == len - Prec
                      q == RoundShift(n, k)
                  IN  IF q = Pow2(Prec)
                      THEN <<SgnInt(m) * Pow2(Prec - 1), e + k + 1>>
                      ELSE <<SgnInt(m) * q, e + k>>

FromInt(n) == Norm(n, 0)

FNeg(a) == <<-a[1], a[2]>>

FAbs(a) == <<AbsInt(a[1]), a[2]>>

\* f64::signum: 1.0 for a positive number and for zero, -1.0 for a negative one.
Signum(a) ==
    IF IsNaN(a) THEN NaN
    ELSE IF a[1] < 0 THEN FromInt(-1) ELSE FromInt(1)

FAdd(a, b) ==
    IF IsNaN(a) \/ IsNaN(b) THEN NaN
    ELSE IF IsInf(a) THEN (IF IsInf(b) /\ a # b THEN NaN ELSE a)
    ELSE IF IsInf(b) THEN b
    ELSE IF a[1] = 0 THEN b
    ELSE IF b[1] = 0 THEN a
    ELSE LET hi == IF a[2] >= b[2] THEN a ELSE b
             lo == IF a[2] >= b[2] THEN b ELSE a
             d == hi[2] - lo[2]
         IN  IF d >= Prec + 2 THEN hi
             ELSE Norm(hi[1] * Pow2(d) + lo[1], lo[2])

FSub(a, b) == FAdd(a, FNeg(b))

FMul(a, b) ==
    IF IsNaN(a) \/ IsNaN(b) THEN NaN
    ELSE IF IsInf(a) \/ IsInf(b)
         THEN (IF a[1] = 0 \/ b[1] = 0 THEN NaN
               ELSE IF SgnInt(a[1]) = SgnInt(b[1]) THEN PosInf ELSE NegInf)
    ELSE Norm(a[1] * b[1], a[2] + b[2])

FDiv(a, b) ==
    IF IsNaN(a) \/ IsNaN(b) THEN NaN
    ELSE IF IsInf(a)
         THEN (IF IsInf(b) THEN NaN
               ELSE IF SgnInt(a[1]) * SgnInt(b[1]) < 0 THEN NegInf ELSE PosInf)
    ELSE IF IsInf(b) THEN Zero
    ELSE IF b[1] = 0
         THEN (IF a[1] = 0 THEN NaN ELSE IF a[1] < 0 THEN NegInf ELSE PosInf)
    ELSE IF a[1] = 0 THEN Zero
    ELSE LET n == AbsInt(a[1]) * Pow2(Prec + 1)
             dv == AbsInt(b[1])
             q == n \div dv
             sticky == IF n % dv = 0 THEN 0 ELSE 1
             s == SgnInt(a[1]) * SgnInt(b[1])
         IN  Norm(s * (2 * q + sticky), a[2] - b[2] - Prec - 2)

\* -1, 0 or 1 as a < b, a = b or a > b; neither operand is NaN.
Cmp(a, b) ==
    IF a = b THEN 0
    ELSE IF IsInf(a) THEN a[1]
    ELSE IF IsInf(b) THEN -b[1]
    ELSE LET sa == SgnInt(a[1])
             sb == SgnInt(b[1])
         IN  IF sa # sb THEN (IF sa < sb THEN -1 ELSE 1)
             ELSE IF a[2] # b[2] THEN (IF a[2] < b[2] THEN -sa ELSE sa)
             ELSE IF a[1] < b[1] THEN -1 ELSE 1

FLe(a, b) == ~IsNaN(a) /\ ~IsNaN(b) /\ Cmp(a, b) <= 0
FLt(a, b) == ~IsNaN(a) /\ ~IsNaN(b) /\ Cmp(a, b) < 0
FGe(a, b) == FLe(b, a)
FGt(a, b) == FLt(b, a)

\* f64::powi, by repeated multiplication.
RECURSIVE Powi(_, _)
Powi(base, i) == IF i = 0 THEN FromInt(1) ELSE FMul(Powi(base, i - 1), base)

\* The decimal literal num/den.
Lit(num, den) == FDiv(FromInt(num), FromInt(den))

\* A cast `as usize`: truncation toward zero, saturating at zero.
AsUsize(a) ==
    IF ~IsFinite(a) \/ a[1] <= 0 THEN 0
    ELSE IF a[2] >= 0 THEN a[1] * Pow2(a[2])
    ELSE IF -a[2] >= 2 * Prec THEN 0
    ELSE a[1] \div Pow2(-a[2])


\* ------------------------------------------------------------------------
\* Constants of the optimiser (src/src/lib.rs)
\* ------------------------------------------------------------------------

LINE_SEARCH_REDUCTION == Lit(7, 10)
STENCIL_REDUCTION == Lit(25, 100)
ARMIJO_CONSTANT == Lit(1, 1000)
MAX_ITERS == 10
\* The bound of the outer loop, `for i in 0..20`.
OUTER_ITERS == 20

Two == FromInt(2)
\* The largest magnitude of a search direction.
Three == FromInt(3)

\* An Option: None, or Some(v).
None == [some |-> FALSE, val |-> <<>>]
Some(v) == [some |-> TRUE, val |-> v]

OptimResult(x_, m_) == [x |-> x_, mse |-> m_]

\* ------------------------------------------------------------------------
\* The oracles the optimiser is run with: the argument `mse: fn(f64, f64) -> f64`.
\* Each is a pure function of (x, h).
\* ------------------------------------------------------------------------

\* The same constant everywhere.
FlatOracle(x_, h_) == FromInt(2)

Square(d_) == FMul(d_, d_)

\* (x - 1)^2: convex, with its minimum at 1.
QuadOracle(x_, h_) == Square(FSub(x_, FromInt(1)))

\* -(x^2): negative curvature everywhere.
ConcaveOracle(x_, h_) == FNeg(FMul(x_, x_))

\* |x|: convex, zero curvature away from the kink.
VeeOracle(x_, h_) == FAbs(x_)

\* (x - h)^2: the loss depends on the stencil size, its minimum is at h.
ShiftOracle(x_, h_) == Square(FSub(x_, h_))

\* A comb: narrow teeth one CombPeriod apart, a wall between them.  Tooth q
\* has the level q/4, one eighth lower on its left edge and one eighth higher
\* on its right edge.  CombPeriod is the step of the line search's seventh
\* candidate along a direction of magnitude 3.
CombPeriod == FMul(Three, Powi(LINE_SEARCH_REDUCTION, 6))
CombWidth == Lit(12, 1000)
CombCore == Lit(3, 1000)
\* The comb's value at distance r_ from the middle of tooth q_.
CombLevel(q_, r_) ==
    IF FGt(FAbs(r_), CombWidth) THEN FromInt(1000)
    ELSE IF FGt(r_, CombCore) THEN FAdd(FMul(Lit(1, 4), FromInt(q_)), Lit(1, 8))
    ELSE IF FLt(r_, FNeg(CombCore))
         THEN FSub(FMul(Lit(1, 4), FromInt(q_)), Lit(1, 8))
    ELSE FMul(Lit(1, 4), FromInt(q_))

CombTooth(x_, q_) == CombLevel(q_, FSub(x_, FMul(FromInt(q_), CombPeriod)))

CombOracle(x_, h_) ==
    CombTooth(x_, AsUsize(FAdd(FDiv(x_, CombPeriod), Lit(1, 2))))

Oracles == {"flat", "quad", "concave", "vee", "shift", "comb"}

\* The call mse(x, h) of the oracle o.
mse(o, x_, h_) ==
    CASE o = "flat" -> FlatOracle(x_, h_)
      [] o = "quad" -> QuadOracle(x_, h_)
      [] o = "concave" -> ConcaveOracle(x_, h_)
      [] o = "vee" -> VeeOracle(x_, h_)
      [] o = "shift" -> ShiftOracle(x_, h_)
      [] o = "comb" -> CombOracle(x_, h_)

\* ------------------------------------------------------------------------
\* generate_gradient
\* ------------------------------------------------------------------------

NoDescentDirection(mse_right, mse_left, mse_centre) ==
    FGe(mse_right, mse_centre) /\ FGe(mse_left, mse_centre)

GradOH(grad_, h_) == FLe(FAbs(grad_), h_)

\* `let grad = (mse_right - mse_left)/(2.0*h);`
GradientEstimate(mse_right, mse_left, h_) ==
    FDiv(FSub(mse_right, mse_left), FMul(Two, h_))

\* `let hess = (mse_right + mse_left - 2.0*mse_centre)/(h*h);`
HessianEstimate(mse_right, mse_left, mse_centre, h_) ==
    FDiv(FSub(FAdd(mse_right, mse_left), FMul(Two, mse_centre)), FMul(h_, h_))

\* `if no_descent_direction || grad_o_h`
StencilFailure(mse_right, mse_left, mse_centre, grad_, h_) ==
    NoDescentDirection(mse_right, mse_left, mse_centre) \/ GradOH(grad_, h_)

GradientOption(mse_right, mse_left, mse_centre, grad_, hess_, h_) ==
    IF StencilFailure(mse_right, mse_left, mse_centre, grad_, h_) THEN None
    ELSE Some(<<grad_, hess_>>)

GradientFrom(mse_right, mse_left, mse_centre, h_) ==
    GradientOption(mse_right, mse_left, mse_centre,
                   GradientEstimate(mse_right, mse_left, h_),
                   HessianEstimate(mse_right, mse_left, mse_centre, h_), h_)

\* None, or Some(<<grad, hess>>).
generate_gradient(o, result_, h_) ==
    GradientFrom(mse(o, FAdd(result_.x, h_), h_),
                 mse(o, FSub(result_.x, h_), h_), result_.mse, h_)

\* ------------------------------------------------------------------------
\* grad_search: the search direction and the result
\* ------------------------------------------------------------------------

SteepestDescent(grad_) == FMul(FNeg(Signum(grad_)), FAbs(grad_))

QuasiNewton(grad_, hess_) == FDiv(SteepestDescent(grad_), hess_)

\* The quasi-Newton direction taken as it is.
NoSafeguard(p_, grad_) == p_

\* `if p*grad <= 0.0 {p} else {-grad.signum()*grad.abs()}`
DescentSafeguard(p_, grad_) ==
    IF FLe(FMul(p_, grad_), Zero) THEN p_ ELSE SteepestDescent(grad_)

\* `if p.abs() <= 3.0 {p} else {-grad.signum()*3.0}`
StepClamp(p_, grad_) ==
    IF FLe(FAbs(p_), Three) THEN p_ ELSE FMul(FNeg(Signum(grad_)), Three)

SearchDirection(grad_, hess_) ==
    StepClamp(DescentSafeguard(QuasiNewton(grad_, hess_), grad_), grad_)

\* `assert!(p*grad <= 0.0)`
DescentAssertion(p_, grad_) == FLe(FMul(p_, grad_), Zero)

\* A starting result with its loss taken at the stencil size before.
InitialResultStale(o, x_, h_) ==
    OptimResult(x_, mse(o, x_, FDiv(h_, STENCIL_REDUCTION)))

\* `OptimResult{ x, mse: mse(x,h)}` at the start of grad_search.
InitialResult(o, x_, h_) == OptimResult(x_, mse(o, x_, h_))

\* A grad_search that returns its point unless the loss went up.
GradSearchResultLax(current, old) ==
    IF FGt(current.mse, old.mse) THEN None ELSE Some(current)

\* The value grad_search returns.
GradSearchResult(current, old) ==
    IF current = old \/ FGe(current.mse, old.mse) THEN None ELSE Some(current)

\* ------------------------------------------------------------------------
\* backtracking_line_search
\* ------------------------------------------------------------------------

StepFactor(i_) == Powi(LINE_SEARCH_REDUCTION, i_)

\* `let x_new = x + a*p;`
CandidatePoint(x_, p_, i_) == FAdd(x_, FMul(StepFactor(i_), p_))

ResultAt(o, x_, h_) == OptimResult(x_, mse(o, x_, h_))

\* `OptimResult{x: x_new, mse: mse_new}`
Candidate(o, x_, p_, h_, i_) == ResultAt(o, CandidatePoint(x_, p_, i_), h_)

\* The Armijo test with the comparison turned round.
ArmijoReversed(mse_new, mse_old_, p_, grad_, i_) ==
    FGe(FSub(mse_new, mse_old_),
        FMul(FMul(FMul(ARMIJO_CONSTANT, StepFactor(i_)), p_), grad_))

\* `actual_decrease <= required_decrease`
Armijo(mse_new, mse_old_, p_, grad_, i_) ==
    FLe(FSub(mse_new, mse_old_),
        FMul(FMul(FMul(ARMIJO_CONSTANT, StepFactor(i_)), p_), grad_))

\* A line search of one candidate less, and of one more.
ExhaustedEarly(i_) == i_ >= MAX_ITERS - 1
ExhaustedLate(i_) == i_ > MAX_ITERS

\* The line search's loop `for i in 0..MAX_ITERS` is over after candidate i_ - 1.
LineSearchExhausted(i_) == i_ >= MAX_ITERS

\* ------------------------------------------------------------------------
\* implicit_filtering
\* ------------------------------------------------------------------------

Stencil(h0_, i_) == FMul(h0_, Powi(STENCIL_REDUCTION, i_))

\* The distance without its absolute value.
DiffSigned(old, new) == FSub(old.x, new.x)

Diff(old, new) == FAbs(FSub(old.x, new.x))

\* The test with the comparison turned round.
ConvergedReversed(diff_, tol_) == FGe(diff_, tol_)

\* `if diff <= tol { break; }`
Converged(diff_, tol_) == FLe(diff_, tol_)

\* ------------------------------------------------------------------------
\* State
\* ------------------------------------------------------------------------

VARIABLES
    \* the arguments of implicit_filtering
    oracle, x0, h0, tol,
    \* where the program is, and which of the two calls of the idempotence
    \* scenario (spec section 8) is running: the second starts at the first's x
    pc, call, start_x,
    \* implicit_filtering: loop index, old_result, h, the value grad_search
    \* returned, the value implicit_filtering returned, the first call's value
    i, old_result, h, grad_result, result, r1,
    \* grad_search: loop index, old_result, current_result, grad, hess, p
    gs_i, gs_old, current_result, grad, hess, p,
    \* backtracking_line_search: x, loop index, mse_old, the value returned
    ls_x, ls_i, mse_old, ls_result,
    \* history of the running call: the diff of every improvement it accepted,
    \* the last improvement, the grad_search calls made, those that ended in a
    \* stencil failure at their first generate_gradient, the line searches run,
    \* the steps the running grad_search accepted
    accepted, last_new, outer_runs, stencil_stops, ls_calls, steps,
    \* oracle evaluations of the running call, and of its running outer iteration
    evals, evals_outer,
    \* get_mse_rk2: the arguments x and h of the call
    arg_x, arg_h,
    \* rk2: the SolutionSequence, n, the calls of next() that nth(n) has still
    \* to make before the one whose element it returns, the calls made
    soln_seq, rk_n, nth_left, advances,
    \* the stencil sizes of the two evaluations of get_mse_rk2 at one x, and
    \* the losses they returned
    hs, losses

inVars == <<oracle, x0, h0, tol>>
ifVars == <<i, old_result, h, grad_result, result, r1>>
gsVars == <<gs_i, gs_old, current_result, grad, hess, p>>
lsVars == <<ls_x, ls_i, mse_old, ls_result>>
histVars == <<accepted, last_new, outer_runs, stencil_stops, ls_calls, steps>>
rkVars == <<arg_x, arg_h, soln_seq, rk_n, nth_left, advances, hs, losses>>
vars == <<inVars, pc, call, start_x, ifVars, gsVars, lsVars, histVars,
          evals, evals_outer, rkVars>>

NoResult == OptimResult(Zero, Zero)

\* The arguments the model runs implicit_filtering with.
X0s == {FromInt(4), Lit(1, 100)}
H0s == {Lit(1, 2), Lit(1, 128)}
Tols == {Zero, Lit(1, 10), FromInt(20)}
Inputs == (Oracles \ {"comb"}) \X X0s \X H0s \X Tols
              \cup {<<"comb", FMul(FromInt(11), CombPeriod), Lit(1, 128), Zero>>}

NoSequence ==
    [stepsize |-> Zero, beta |-> Zero, soln_elem |-> [time |-> Zero, val |-> Zero]]

IdleRk ==
    /\ arg_x = Zero /\ arg_h = Zero /\ soln_seq = NoSequence
    /\ rk_n = 0 /\ nth_left = 0 /\ advances = 0 /\ hs = <<>> /\ losses = <<>>

Idle ==
    /\ IdleRk
    /\ i = 0 /\ old_result = NoResult /\ h = Zero /\ grad_result = None
    /\ result = NoResult /\ r1 = NoResult
    /\ gs_i = 0 /\ gs_old = NoResult /\ current_result = NoResult
    /\ grad = Zero /\ hess = Zero /\ p = Zero
    /\ ls_x = Zero /\ ls_i = 0 /\ mse_old = Zero /\ ls_result = None
    /\ accepted = <<>> /\ last_new = NoResult /\ outer_runs = 0
    /\ stencil_stops = 0 /\ ls_calls = 0 /\ steps = 0
    /\ evals = 0 /\ evals_outer = 0

Init ==
    /\ \E in \in Inputs :
          oracle = in[1] /\ x0 = in[2] /\ h0 = in[3] /\ tol = in[4]
    /\ pc = "if_entry" /\ call = 1 /\ start_x = x0
    /\ Idle

\* ------------------------------------------------------------------------
\* implicit_filtering
\* ------------------------------------------------------------------------

\* `let mut old_result = OptimResult{x: x0, mse: mse(x0,h0)};`
ImplicitFilteringEntry ==
    /\ pc = "if_entry"
    /\ old_result' = OptimResult(start_x, mse(oracle, start_x, h0))
    /\ i' = 0
    /\ evals' = evals + 1
    /\ pc' = "if_loop"
    /\ UNCHANGED <<rkVars, inVars, call, start_x, h, grad_result, result, r1,
                   gsVars, lsVars, histVars, evals_outer>>

\* One turn of `for i in 0..20`: the stencil size, and the call of grad_search
\* up to its loop.
OuterIteration ==
    /\ pc = "if_loop"
    /\ i < OUTER_ITERS
    /\ h' = Stencil(h0, i)
    /\ gs_old' = InitialResult(oracle, old_result.x, h')
    /\ current_result' = gs_old'
    /\ gs_i' = 0 /\ steps' = 0
    /\ outer_runs' = outer_runs + 1
    /\ evals' = evals + 1 /\ evals_outer' = 1
    /\ pc' = "gs_loop"
    /\ UNCHANGED <<rkVars, inVars, call, start_x, i, old_result, grad_result, result,
                   r1, grad, hess, p, lsVars, accepted, last_new,
                   stencil_stops, ls_calls>>

\* grad_search, one turn of `for _i in 0..MAX_ITERS` up to the call of the line
\* search: generate_gradient, the search direction, the assertion.
InnerIteration ==
    /\ pc = "gs_loop"
    /\ gs_i < MAX_ITERS
    /\ \E gh \in {generate_gradient(oracle, current_result, h)} :
           IF ~gh.some
           THEN /\ pc' = "gs_exit"
                /\ stencil_stops' = IF gs_i = 0 THEN stencil_stops + 1
                                    ELSE stencil_stops
                /\ UNCHANGED <<grad, hess, p, ls_x>>
           ELSE /\ grad' = gh.val[1]
                /\ hess' = gh.val[2]
                /\ p' = SearchDirection(grad', hess')
                /\ ls_x' = current_result.x
                /\ pc' = IF DescentAssertion(p', grad') THEN "ls_entry"
                         ELSE "panic"
                /\ UNCHANGED stencil_stops
    /\ evals' = evals + 2 /\ evals_outer' = evals_outer + 2
    /\ UNCHANGED <<rkVars, inVars, call, start_x, ifVars, gs_i, gs_old, current_result,
                   ls_i, mse_old, ls_result, accepted, last_new, outer_runs,
                   ls_calls, steps>>

\* backtracking_line_search: `let mse_old = mse(x,h);`
LineSearchEntry ==
    /\ pc = "ls_entry"
    /\ mse_old' = mse(oracle, ls_x, h)
    /\ ls_i' = 0
    /\ ls_result' = None
    /\ ls_calls' = ls_calls + 1
    /\ evals' = evals + 1 /\ evals_outer' = evals_outer + 1
    /\ pc' = "ls_loop"
    /\ UNCHANGED <<rkVars, inVars, call, start_x, ifVars, gsVars, ls_x, accepted,
                   last_new, outer_runs, stencil_stops, steps>>

\* backtracking_line_search: one turn of `for i in 0..MAX_ITERS`.
LineSearchCandidate ==
    /\ pc = "ls_loop"
    /\ \E c \in {Candidate(oracle, ls_x, p, h, ls_i)} :
           IF Armijo(c.mse, mse_old, p, grad, ls_i)
           THEN /\ ls_result' = Some(c)
                /\ pc' = "ls_ret"
                /\ UNCHANGED ls_i
           ELSE /\ ls_i' = ls_i + 1
                /\ ls_result' = None
                /\ pc' = IF LineSearchExhausted(ls_i') THEN "ls_ret"
                         ELSE "ls_loop"
    /\ evals' = evals + 1 /\ evals_outer' = evals_outer + 1
    /\ UNCHANGED <<rkVars, inVars, call, start_x, ifVars, gsVars, ls_x, mse_old,
                   histVars>>

\* grad_search: the match on the line search's value, and the end of the turn.
LineSearchReturn ==
    /\ pc = "ls_ret"
    /\ IF ls_result.some
       THEN /\ current_result' = ls_result.val
            /\ gs_i' = gs_i + 1
            /\ steps' = steps + 1
            /\ pc' = IF gs_i' >= MAX_ITERS THEN "gs_exit" ELSE "gs_loop"
       ELSE /\ pc' = "gs_exit"
            /\ UNCHANGED <<current_result, gs_i, steps>>
    /\ UNCHANGED <<rkVars, inVars, call, start_x, ifVars, gs_old, grad, hess, p,
                   lsVars, accepted, last_new, outer_runs, stencil_stops,
                   ls_calls, evals, evals_outer>>

\* grad_search: the value it returns.
GradSearchReturn ==
    /\ pc = "gs_exit"
    /\ grad_result' = GradSearchResult(current_result, gs_old)
    /\ pc' = "if_match"
    /\ UNCHANGED <<rkVars, inVars, call, start_x, i, old_result, h, result, r1, gsVars,
                   lsVars, histVars, evals, evals_outer>>

\* implicit_filtering: the match on grad_search's value, and the end of the turn.
ImplicitFilteringMatch ==
    /\ pc = "if_match"
    /\ IF ~grad_result.some
       THEN /\ i' = i + 1
            /\ pc' = IF i' >= OUTER_ITERS THEN "if_exit" ELSE "if_loop"
            /\ UNCHANGED <<old_result, accepted, last_new>>
       ELSE \E new_result \in {grad_result.val} :
            \E diff \in {Diff(old_result, new_result)} :
                /\ old_result' = new_result
                /\ accepted' = Append(accepted, diff)
                /\ last_new' = new_result
                /\ IF Converged(diff, tol)
                   THEN pc' = "if_exit" /\ UNCHANGED i
                   ELSE /\ i' = i + 1
                        /\ pc' = IF i' >= OUTER_ITERS THEN "if_exit"
                                 ELSE "if_loop"
    /\ UNCHANGED <<rkVars, inVars, call, start_x, h, grad_result, result, r1, gsVars,
                   lsVars, outer_runs, stencil_stops, ls_calls, steps, evals,
                   evals_outer>>

\* implicit_filtering returns old_result.
ImplicitFilteringReturn ==
    /\ pc = "if_exit"
    /\ result' = old_result
    /\ r1' = IF call = 1 THEN old_result ELSE r1
    /\ pc' = "if_done"
    /\ UNCHANGED <<rkVars, inVars, call, start_x, i, old_result, h, grad_result,
                   gsVars, lsVars, histVars, evals, evals_outer>>

\* The idempotence scenario: implicit_filtering is called again, from the x it
\* returned, with the same oracle, h0 and tol.
CallAgain ==
    /\ pc = "if_done"
    /\ call = 1
    /\ call' = 2
    /\ start_x' = r1.x
    /\ accepted' = <<>> /\ last_new' = NoResult
    /\ outer_runs' = 0 /\ stencil_stops' = 0 /\ ls_calls' = 0 /\ steps' = 0
    /\ evals' = 0 /\ evals_outer' = 0
    /\ pc' = "if_entry"
    /\ UNCHANGED <<rkVars, inVars, ifVars, gsVars, lsVars>>

Next ==
    \/ ImplicitFilteringEntry
    \/ OuterIteration
    \/ InnerIteration
    \/ LineSearchEntry
    \/ LineSearchCandidate
    \/ LineSearchReturn
    \/ GradSearchReturn
    \/ ImplicitFilteringMatch
    \/ ImplicitFilteringReturn
    \/ CallAgain

Spec == Init /\ [][Next]_vars

\* ------------------------------------------------------------------------
\* backtracking_line_search on its own
\* ------------------------------------------------------------------------

ConvexOracles == {"quad", "vee"}

\* The derivative of a convex oracle at x_.
Derivative(o, x_) ==
    IF o = "quad" THEN FMul(Two, FSub(x_, FromInt(1))) ELSE Signum(x_)

LsPoints ==
    {FromInt(4), Lit(3, 2), Lit(101, 100), Lit(65, 1000), Lit(1, 4), FromInt(-2),
     Lit(-1, 10)}
LsLengths == {FromInt(3), FromInt(1), Lit(1, 10)}

\* A convex loss, a point that is not its minimum, the derivative there as
\* grad, and a direction p against the derivative.
InitLS ==
    /\ oracle \in ConvexOracles
    /\ ls_x \in LsPoints
    /\ grad = Derivative(oracle, ls_x)
    /\ \E len \in LsLengths : p = FMul(FNeg(Signum(grad)), len)
    /\ h = Lit(1, 128)
    /\ x0 = ls_x /\ h0 = h /\ tol = Zero
    /\ pc = "ls_entry" /\ call = 1 /\ start_x = x0
    /\ IdleRk
    /\ i = 0 /\ old_result = NoResult /\ grad_result = None
    /\ result = NoResult /\ r1 = NoResult
    /\ gs_i = 0 /\ gs_old = NoResult /\ current_result = NoResult
    /\ hess = Zero
    /\ ls_i = 0 /\ mse_old = Zero /\ ls_result = None
    /\ accepted = <<>> /\ last_new = NoResult /\ outer_runs = 0
    /\ stencil_stops = 0 /\ ls_calls = 0 /\ steps = 0
    /\ evals = 0 /\ evals_outer = 0

NextLS ==
    \/ LineSearchEntry
    \/ LineSearchCandidate

SpecLS == InitLS /\ [][NextLS]_vars

\* ------------------------------------------------------------------------
\* The ODE oracle: get_mse_rk2 (src/src/main.rs) and rk2 (src/src/euler.rs)
\* ------------------------------------------------------------------------

FINAL_TIME == FromInt(5)

\* `(BETA*FINAL_TIME).exp()` with BETA = 1.0: e^5.
TrueVal == Lit(1484132, 10000)

INITIAL_CONDITION == [time |-> FromInt(0), val |-> FromInt(1)]

\* SolutionSequence::new
NewSequence(stepsize_, beta_) ==
    [stepsize |-> stepsize_, beta |-> beta_, soln_elem |-> INITIAL_CONDITION]

\* `let k2 = deriv(y0 + stepsize*d2);` with d2 = k1
StageTwo(y0_, k1_, beta_, stepsize_) == FMul(beta_, FAdd(y0_, FMul(stepsize_, k1_)))

\* `let dy = 0.5*(k1 + k2);`
AverageSlope(k1_, k2_) == FMul(Lit(1, 2), FAdd(k1_, k2_))

StepFrom(t0_, y0_, k1_, beta_, stepsize_) ==
    [time |-> FAdd(t0_, stepsize_),
     val |-> FAdd(y0_, FMul(stepsize_,
                 AverageSlope(k1_, StageTwo(y0_, k1_, beta_, stepsize_))))]

rk2_next(current, beta_, stepsize_) ==
    StepFrom(current.time, current.val, FMul(beta_, current.val), beta_, stepsize_)

\* `let n = (finish_time/ stepsize) as usize;`
StepCount(finish_time_, stepsize_) == AsUsize(FDiv(finish_time_, stepsize_))

\* The call with x and h swapped.
Rk2ArgumentsSwapped(x_, h_) == <<h_, x_, FINAL_TIME>>

\* The arguments beta, stepsize, finish_time of `rk2(x,h, FINAL_TIME)`.
Rk2Arguments(x_, h_) == <<x_, h_, FINAL_TIME>>

\* `error.powi(2)` of `true_val - estimated_val`
SquaredError(estimated_val) == Powi(FSub(TrueVal, estimated_val), 2)

RkPoints == {FromInt(1), Lit(3, 2), Lit(1, 2)}
RkStencils == {FromInt(2), FromInt(1), Lit(1, 2), Lit(1, 4)}

\* get_mse_rk2 is evaluated at one x with two stencil sizes, one after the other.
InitRK ==
    /\ arg_x \in RkPoints
    /\ hs \in RkStencils \X RkStencils
    /\ arg_h = hs[1]
    /\ soln_seq = NoSequence
    /\ rk_n = 0 /\ nth_left = 0 /\ advances = 0 /\ losses = <<>>
    /\ pc = "rk_call" /\ call = 1
    /\ oracle = "rk2" /\ x0 = arg_x /\ h0 = arg_h /\ tol = Zero /\ start_x = x0
    /\ i = 0 /\ old_result = NoResult /\ h = Zero /\ grad_result = None
    /\ result = NoResult /\ r1 = NoResult
    /\ gs_i = 0 /\ gs_old = NoResult /\ current_result = NoResult
    /\ grad = Zero /\ hess = Zero /\ p = Zero
    /\ ls_x = Zero /\ ls_i = 0 /\ mse_old = Zero /\ ls_result = None
    /\ accepted = <<>> /\ last_new = NoResult /\ outer_runs = 0
    /\ stencil_stops = 0 /\ ls_calls = 0 /\ steps = 0
    /\ evals = 0 /\ evals_outer = 0

mainVars == <<inVars, start_x, ifVars, gsVars, lsVars, histVars, evals,
              evals_outer>>

\* get_mse_rk2 calls rk2, which makes the sequence and computes n.
Rk2Call ==
    /\ pc = "rk_call"
    /\ \E a \in {Rk2Arguments(arg_x, arg_h)} :
          /\ soln_seq' = NewSequence(a[2], a[1])
          /\ rk_n' = StepCount(a[3], a[2])
    /\ nth_left' = rk_n'
    /\ advances' = 0
    /\ pc' = "rk_nth"
    /\ UNCHANGED <<mainVars, call, arg_x, arg_h, hs, losses>>

\* One call of SolutionSequence::next made by `soln_seq.nth(n)`: Iterator::nth
\* calls next() n times and drops the elements, then returns the element of
\* one more call.
SequenceNext ==
    /\ pc = "rk_nth"
    /\ soln_seq' = [soln_seq EXCEPT !.soln_elem =
                       rk2_next(soln_seq.soln_elem, soln_seq.beta,
                                soln_seq.stepsize)]
    /\ advances' = advances + 1
    /\ IF nth_left = 0
       THEN pc' = "rk_ret" /\ UNCHANGED nth_left
       ELSE nth_left' = nth_left - 1 /\ UNCHANGED pc
    /\ UNCHANGED <<mainVars, call, arg_x, arg_h, rk_n, hs, losses>>

\* rk2 returns the element's val, get_mse_rk2 the squared error; then the
\* second evaluation is started.
GetMseRk2Return ==
    /\ pc = "rk_ret"
    /\ losses' = Append(losses, SquaredError(soln_seq.soln_elem.val))
    /\ IF call = 1
       THEN call' = 2 /\ arg_h' = hs[2] /\ pc' = "rk_call"
       ELSE pc' = "rk_done" /\ UNCHANGED <<call, arg_h>>
    /\ UNCHANGED <<mainVars, arg_x, soln_seq, rk_n, nth_left, advances, hs>>

NextRK ==
    \/ Rk2Call
    \/ SequenceNext
    \/ GetMseRk2Return

SpecRK == InitRK /\ [][NextRK]_vars

\* ------------------------------------------------------------------------
\* Properties
\* ------------------------------------------------------------------------

LineSearchStates == {"ls_entry", "ls_loop", "ls_ret"}
CallOver == {"if_exit", "if_done"}

\* C1: with an oracle that is the same constant everywhere, no line search is
\* ever run, every grad_search stops at its first generate_gradient with a
\* stencil failure, all 20 outer iterations are run, and the value returned is
\* the initial point with its loss at (x0, h0).
FlatOracleKeepsStart ==
    oracle = "flat" =>
        /\ pc \notin LineSearchStates
        /\ ls_calls = 0
        /\ steps = 0
        /\ pc \in {"gs_exit", "if_match"} => stencil_stops = outer_runs
        /\ pc \in CallOver =>
              /\ outer_runs = 20
              /\ stencil_stops = 20
        /\ pc = "if_done" =>
              result = OptimResult(start_x, FlatOracle(start_x, h0))

FlatRunEnded == oracle = "flat" /\ pc = "if_done" /\ call = 1 /\ stencil_stops = 20

\* C2: every accepted improvement but the last moved x by more than tol; an
\* accepted improvement that moved x by at most tol ends the call at once,
\* and is the value returned; and a call only ends on such an improvement or
\* after the 20th outer iteration.
OuterLoopEndsOnSmallDiff ==
    pc \notin LineSearchStates \cup {"rk_call", "rk_nth", "rk_ret", "rk_done"} =>
        /\ \A k \in 1..(Len(accepted) - 1) : FGt(accepted[k], tol)
        /\ (Len(accepted) > 0 /\ FLe(accepted[Len(accepted)], tol)) =>
              /\ pc \in CallOver
              /\ old_result = last_new
              /\ pc = "if_done" => result = last_new
        /\ pc \in CallOver =>
              \/ Len(accepted) > 0 /\ FLe(accepted[Len(accepted)], tol)
              \/ i = 20 /\ outer_runs = 20

EndedOnSecondImprovement ==
    /\ pc = "if_done"
    /\ Len(accepted) >= 2
    /\ FLe(accepted[Len(accepted)], tol)
    /\ outer_runs < 20

\* C3 as stated: the second call, started at the x the first call returned,
\* returns an x within tol of it.
SecondCallWithinTol ==
    (pc = "if_done" /\ call = 2) => FLe(FAbs(FSub(result.x, r1.x)), tol)

\* C3: the second call returns an x within tol of the first call's, unless
\* the first improvement it accepts moves x by more than tol.
SecondCallWithinTolUnlessMoved ==
    (pc = "if_done" /\ call = 2) =>
        \/ FLe(FAbs(FSub(result.x, r1.x)), tol)
        \/ Len(accepted) >= 1 /\ FGt(accepted[1], tol)

SecondCallMoved ==
    /\ pc = "if_done" /\ call = 2
    /\ Len(accepted) = 1
    /\ result.x # r1.x
    /\ FLe(accepted[1], tol)

\* Candidate k_ of the running line search passes the Armijo test.
ArmijoAt(k_) ==
    Armijo(mse(oracle, CandidatePoint(ls_x, p, k_), h), mse(oracle, ls_x, h),
           p, grad, k_)

\* C4 as stated: for a convex loss and a direction along which it decreases
\* at x, the line search returns a result.
ConvexLineSearchSucceeds ==
    (pc = "ls_ret" /\ oracle \in ConvexOracles /\ FLt(FMul(p, grad), Zero)) =>
        ls_result.some

\* C4: the line search returns a result exactly when one of its 10 candidates
\* passes the Armijo test, and then the first that does; otherwise, also for
\* a convex loss and a descent direction, it signals failure.
LineSearchReturnsFirstArmijo ==
    pc = "ls_ret" =>
        /\ ls_result.some <=> \E k \in 0..9 : ArmijoAt(k)
        /\ ls_result.some =>
              /\ ls_i \in 0..9
              /\ ArmijoAt(ls_i)
              /\ \A k \in 0..(ls_i - 1) : ~ArmijoAt(k)
              /\ ls_result.val = Candidate(oracle, ls_x, p, h, ls_i)

LastCandidateAccepted ==
    pc = "ls_ret" /\ oracle \in ConvexOracles /\ ls_result.some /\ ls_i = 9

\* C5: inside grad_search at stencil size h, the loss of current_result (the
\* centre of generate_gradient's differences) and of old_result is the
\* oracle's value at their x and this h, and the line search's mse_old is
\* that loss of current_result.
LossIsAtCurrentStencil ==
    /\ pc \in {"gs_loop", "gs_exit"} \cup LineSearchStates =>
          /\ current_result.mse = mse(oracle, current_result.x, h)
          /\ gs_old.mse = mse(oracle, gs_old.x, h)
    /\ pc \in LineSearchStates => ls_x = current_result.x
    /\ pc \in {"ls_loop", "ls_ret"} => mse_old = current_result.mse

LaterStencilLineSearch ==
    oracle = "shift" /\ pc = "ls_loop" /\ outer_runs >= 2

\* C6 as stated: the loops are bounded by 20, 10 and 10, no outer iteration
\* evaluates the oracle more than 100 times and no call more than 2000 times.
CostWithinHundred ==
    /\ i <= 20 /\ gs_i <= 10 /\ ls_i <= 10
    /\ evals_outer <= 100
    /\ evals <= 2000

\* How far the run has come: every step of the program raises it.
Progress ==
    3200 * call +
    ( CASE pc = "if_entry" -> 0
        [] pc = "if_loop" -> 1 + 150 * i
        [] pc = "gs_loop" -> 2 + 150 * i + 14 * gs_i
        [] pc = "ls_entry" -> 3 + 150 * i + 14 * gs_i
        [] pc = "ls_loop" -> 4 + 150 * i + 14 * gs_i + ls_i
        [] pc = "ls_ret" -> 15 + 150 * i + 14 * gs_i
        [] pc = "gs_exit" -> 143 + 150 * i
        [] pc = "if_match" -> 144 + 150 * i
        [] pc = "if_exit" -> 3002
        [] pc = "if_done" -> 3003
        [] OTHER -> 0 )

CostBounds ==
    /\ i <= 20 /\ outer_runs <= 20
    /\ gs_i <= 10
    /\ ls_i <= 10
    /\ pc = "ls_loop" => ls_i < 10
    /\ evals_outer <= 131
    /\ evals <= 2621
    /\ Progress <= 2 * 3200 + 3003

\* C6: every call ends, after at most 20 outer iterations of at most 10 inner
\* iterations of at most 10 candidates each (every step raises Progress, which
\* is bounded); an outer iteration evaluates the oracle at most
\* 1 + 10 * (2 + 1 + 10) = 131 times and a call at most 1 + 20 * 131 = 2621
\* times.
CallsEndWithinCost == []CostBounds /\ [][Progress' > Progress]_vars

OverHundredEvaluations == evals_outer > 100

AcceptedStepsLowerLoss ==
    /\ (pc = "ls_ret" /\ ls_result.some) =>
          FLt(ls_result.val.mse, current_result.mse)
    /\ (pc \in {"gs_loop", "gs_exit", "if_match"} \cup LineSearchStates /\ steps >= 1) =>
          FLt(current_result.mse, gs_old.mse)
    /\ pc \in {"gs_loop", "gs_exit", "if_match"} \cup LineSearchStates =>
          /\ steps = gs_i
          /\ steps = 0 => current_result = gs_old
    /\ pc = "if_match" =>
          /\ grad_result.some <=> steps >= 1
          /\ grad_result.some =>
                /\ grad_result.val = current_result
                /\ grad_result.val.x # old_result.x
                /\ FLt(grad_result.val.mse, mse(oracle, old_result.x, h))

SeveralStepsReturned == pc = "if_match" /\ grad_result.some /\ steps >= 2

\* C9 as stated: rk2 returns the state after exactly n = trunc(finish_time /
\* stepsize) calls of next(), at time n * stepsize.
Rk2AdvancesNTimes ==
    pc = "rk_ret" =>
        /\ rk_n = StepCount(FINAL_TIME, soln_seq.stepsize)
        /\ advances = rk_n
        /\ soln_seq.soln_elem.time = FMul(FromInt(rk_n), soln_seq.stepsize)

====
